---- MODULE Spec2Model ----
(***************************************************************************)
(* State-machine model of the PrivateSetIntersectionFHE contract           *)
(* (src/unnamed/part_000, lines 7-126) together with the external FHE      *)
(* compute engine it dispatches to.                                        *)
(*                                                                         *)
(* One action per external function of the contract; a transaction that    *)
(* hits a failing require() reverts, i.e. none of its writes is kept.      *)
(* The engine is an environment: it hands out request tokens, later signs  *)
(* one result per token, and anybody may deliver (or replay, or forge) a   *)
(* callback.                                                               *)
(***************************************************************************)
EXTENDS Integers, Sequences, FiniteSets, Bags, TLC

\* ------------------------------------------------------------- bounds
\* submissions explored (setCount stops here)
MaxSets == 2
\* ciphertext handles per submitted set
MaxItems == 2
\* accepted callbacks explored per request id
MaxCallbacks == 2

\* ------------------------------------------------------ value domains
\* msg.sender / participant addresses (address(0) is never a sender)
Addr == {1, 2}
\* callers of requestMultiPSI
Requesters == {1}
\* block timestamps
Timestamps == {1, 2}
\* tokens the engine hands out
EngineTokens == {1}
\* result payloads a caller may present (bytes, as byte sequences)
Results == {<<1>>, <<2>>}
\* a proof the engine never issued
Forged == <<0, <<>>>>

VARIABLES
    setCount,       \* uint256 public setCount
    ownerToSetId,   \* mapping(address => uint256)
    encryptedSets,  \* mapping(uint256 => EncryptedSet), written keys only
    psiRequests,    \* mapping(uint256 => PSIRequest), written keys only
    psiResults,     \* mapping(uint256 => bytes), written keys only
    events,         \* bag of emitted events <<name, id>>
    fheCounter,     \* engine: last request token handed out
    fheRequests,    \* engine: token -> what was dispatched
    signed,         \* engine: set of <<token, result>> it has signed
    now,            \* block.timestamp; Date.now() of the web clients
    lastCall,       \* receipt of the last transaction
    ledger,         \* web client's storage contract: key -> bytes written
    unreadable,     \* ledger keys whose getData call fails
    client,         \* per browser: position and React state of App
    started         \* user actions started so far

vars == <<setCount, ownerToSetId, encryptedSets, psiRequests, psiResults,
          events, fheCounter, fheRequests, signed, now, lastCall,
          ledger, unreadable, client, started>>

\* The web client (App.tsx) and its storage contract; the functions of
\* PrivateSetIntersectionFHE never touch them.
clientVars == <<ledger, unreadable, client, started>>

\* ------------------------------------------------------ storage helpers
\* The zero-initialised structs a Solidity mapping returns for an unwritten key.
EmptySet == [id |-> 0, owner |-> 0, items |-> <<>>, timestamp |-> 0]
EmptyRequest == [id |-> 0, requester |-> 0, participants |-> <<>>,
                 sizeOnly |-> FALSE, timestamp |-> 0]
EmptyBytes == <<>>

\* m[k] of a Solidity mapping: the stored value, or the zero value.
Lookup(m, k, zero) == IF k \in DOMAIN m THEN m[k] ELSE zero

\* m[k] = v
Store(m, k, v) == [x \in DOMAIN m \cup {k} |-> IF x = k THEN v ELSE m[x]]

\* The contract's storage and the engine's request table, as one value, so
\* that a transaction body can be computed write by write.
Storage ==
    [setCount |-> setCount, ownerToSetId |-> ownerToSetId,
     encryptedSets |-> encryptedSets, psiRequests |-> psiRequests,
     psiResults |-> psiResults, events |-> events,
     fheCounter |-> fheCounter, fheRequests |-> fheRequests]

Emit(st, name, id) == [st EXCEPT !.events = @ (+) SetToBag({<<name, id>>})]

\* Outcome of a transaction body.
Ok(st, ret) == [ok |-> TRUE, err |-> "", st |-> st, ret |-> ret]
Revert(st, msg) == [ok |-> FALSE, err |-> msg, st |-> st, ret |-> 0]

\* ---------------------------------------------------------------- hash
\* abi.encodePacked(msg.sender, block.timestamp, participants): the sender,
\* the timestamp, then one word per participant.
encodePacked(sender, ts, participants) == <<sender, ts>> \o participants

\* Mutant: a digest that adds the words up, blind to their order.
RECURSIVE keccak256Sum(_)
keccak256Sum(words) ==
    IF words = <<>> THEN 1
    ELSE keccak256Sum(SubSeq(words, 1, Len(words) - 1)) + words[Len(words)]

\* Every word of an encoding is below WordBase.
Words == Addr \cup Timestamps
WordBase == (CHOOSE m \in Words : \A w \in Words : w <= m) + 1

\* keccak256 as a collision-free digest of the word sequence: the words read
\* as digits after a leading 1 (so that the length is part of the digest).
RECURSIVE keccak256(_)
keccak256(words) ==
    IF words = <<>> THEN 1
    ELSE keccak256(SubSeq(words, 1, Len(words) - 1)) * WordBase
         + words[Len(words)]

\* ------------------------------------------------- submitEncryptedSet
\* Ciphertext handles of the k-th submission: n fresh handles, in order.
Handle(k, j) == k * (MaxItems + 1) + j
ItemInputs(k) == {[j \in 1..n |-> Handle(k, j)] : n \in 0..MaxItems}

\* Mutant: each handle is put in front of the ones stored before it.
RECURSIVE pushItemsInFront(_, _, _)
pushItemsInFront(stored, items, i) ==
    IF i > Len(items) THEN stored
    ELSE pushItemsInFront(<<items[i]>> \o stored, items, i + 1)

\* s.items.push(items[i]) for i = 0 .. items.length-1, starting at index i.
RECURSIVE pushItems(_, _, _)
pushItems(stored, items, i) ==
    IF i > Len(items) THEN stored
    ELSE pushItems(Append(stored, items[i]), items, i + 1)

\* Mutant: the pointer keeps the first set an owner submitted.
submitEncryptedSetBodyFirstWins(st, sender, ts, items) ==
    LET newId == st.setCount + 1
        s0 == Lookup(st.encryptedSets, newId, EmptySet)
        s == [s0 EXCEPT !.id = newId, !.owner = sender, !.timestamp = ts,
                        !.items = pushItems(s0.items, items, 1)]
        st1 == [st EXCEPT !.setCount = newId,
                          !.encryptedSets = Store(@, newId, s),
                          !.ownerToSetId =
                              [@ EXCEPT ![sender] =
                                  IF @ = 0 THEN newId ELSE @]]
    IN Ok(Emit(st1, "EncryptedSetSubmitted", newId), newId)

\* Mutant: the id is taken before the counter is incremented, so that the
\* first set gets id 0.
submitEncryptedSetBodyFromZero(st, sender, ts, items) ==
    LET newId == st.setCount
        s0 == Lookup(st.encryptedSets, newId, EmptySet)
        s == [s0 EXCEPT !.id = newId, !.owner = sender, !.timestamp = ts,
                        !.items = pushItems(s0.items, items, 1)]
        st1 == [st EXCEPT !.setCount = st.setCount + 1,
                          !.encryptedSets = Store(@, newId, s),
                          !.ownerToSetId = [@ EXCEPT ![sender] = newId]]
    IN Ok(Emit(st1, "EncryptedSetSubmitted", newId), newId)

\* Mutant: an owner who already has a set gets it rewritten in place: the
\* new handles are pushed onto the stored record.
submitEncryptedSetBodyInPlace(st, sender, ts, items) ==
    LET newId == IF st.ownerToSetId[sender] # 0 THEN st.ownerToSetId[sender]
                 ELSE st.setCount + 1
        s0 == Lookup(st.encryptedSets, newId, EmptySet)
        s == [s0 EXCEPT !.id = newId, !.owner = sender, !.timestamp = ts,
                        !.items = pushItems(s0.items, items, 1)]
        st1 == [st EXCEPT !.setCount = st.setCount + 1,
                          !.encryptedSets = Store(@, newId, s),
                          !.ownerToSetId = [@ EXCEPT ![sender] = newId]]
    IN Ok(Emit(st1, "EncryptedSetSubmitted", newId), newId)

submitEncryptedSetBody(st, sender, ts, items) ==
    LET newId == st.setCount + 1
        s0 == Lookup(st.encryptedSets, newId, EmptySet)
        s == [s0 EXCEPT !.id = newId, !.owner = sender, !.timestamp = ts,
                        !.items = pushItems(s0.items, items, 1)]
        st1 == [st EXCEPT !.setCount = newId,
                          !.encryptedSets = Store(@, newId, s),
                          !.ownerToSetId = [@ EXCEPT ![sender] = newId]]
    IN Ok(Emit(st1, "EncryptedSetSubmitted", newId), newId)

\* ---------------------------------------------------- requestMultiPSI
\* First loop (lines 73-78): the index of the first participant without a
\* set, or 0 when every participant has one.
RECURSIVE firstMissing(_, _, _)
firstMissing(st, participants, i) ==
    IF i > Len(participants) THEN 0
    ELSE IF st.ownerToSetId[participants[i]] = 0 THEN i
    ELSE firstMissing(st, participants, i + 1)

RECURSIVE totalItems(_, _, _)
totalItems(st, participants, i) ==
    IF i > Len(participants) THEN 0
    ELSE Len(Lookup(st.encryptedSets, st.ownerToSetId[participants[i]],
                    EmptySet).items)
         + totalItems(st, participants, i + 1)

\* Inner loop (lines 85-88): allCiphertexts[idx] = items[j]; idx++.
\* acc is the pair <<allCiphertexts, idx>>, idx counted from 0 as in the code.
RECURSIVE copyItems(_, _, _)
copyItems(acc, items, j) ==
    IF j > Len(items) THEN acc
    ELSE copyItems(<<[acc[1] EXCEPT ![acc[2] + 1] = items[j]], acc[2] + 1>>,
                   items, j + 1)

\* Outer loop (lines 82-89).
RECURSIVE gatherFrom(_, _, _, _)
gatherFrom(st, participants, i, acc) ==
    IF i > Len(participants) THEN acc
    ELSE LET sid == st.ownerToSetId[participants[i]]
             items == Lookup(st.encryptedSets, sid, EmptySet).items
         IN gatherFrom(st, participants, i + 1, copyItems(acc, items, 1))

\* Mutant: the participants are visited last to first.
allCiphertextsReversed(st, participants) ==
    LET n == Len(participants)
        rev == [i \in 1..n |-> participants[n + 1 - i]]
    IN gatherFrom(st, rev, 1,
                  <<[k \in 1..totalItems(st, rev, 1) |-> 0], 0>>)[1]

\* new bytes32[](totalItems), then filled (lines 80-89).
allCiphertexts(st, participants) ==
    gatherFrom(st, participants, 1,
               <<[k \in 1..totalItems(st, participants, 1) |-> 0], 0>>)[1]

\* FHE.requestComputation(cts, selector): the engine records the dispatch and
\* returns a fresh token (its request counter).
FHErequestComputation(st, cts, selector) ==
    LET token == st.fheCounter + 1
    IN [st |-> [st EXCEPT !.fheCounter = token,
                          !.fheRequests = Store(@, token,
                                [cts |-> cts, selector |-> selector])],
        token |-> token]

\* Mutant: the record is written under the engine's token only.
recordAndDispatchTokenOnly(st, sender, ts, participants, sizeOnly) ==
    LET reqId == keccak256(encodePacked(sender, ts, participants))
        r == [EmptyRequest EXCEPT !.id = reqId, !.requester = sender,
                                   !.participants = participants,
                                   !.sizeOnly = sizeOnly, !.timestamp = ts]
    IN IF firstMissing(st, participants, 1) # 0
       THEN Revert(st, "Participant missing set")
       ELSE
       LET d == FHErequestComputation(st, allCiphertexts(st, participants),
                                      "receivePSIResult")
           st2 == [d.st EXCEPT !.psiRequests = Store(@, d.token, r)]
       IN Ok(Emit(st2, "PSIRequested", reqId), reqId)

\* Mutant: the copy stored under the engine's token is re-tagged with the
\* token.
recordAndDispatchRetagged(st, sender, ts, participants, sizeOnly) ==
    LET reqId == keccak256(encodePacked(sender, ts, participants))
        r0 == Lookup(st.psiRequests, reqId, EmptyRequest)
        r == [r0 EXCEPT !.id = reqId, !.requester = sender,
                         !.participants = participants,
                         !.sizeOnly = sizeOnly, !.timestamp = ts]
        st1 == [st EXCEPT !.psiRequests = Store(@, reqId, r)]
    IN IF firstMissing(st1, participants, 1) # 0
       THEN Revert(st1, "Participant missing set")
       ELSE
       LET d == FHErequestComputation(st1, allCiphertexts(st1, participants),
                                      "receivePSIResult")
           st2 == [d.st EXCEPT !.psiRequests =
                                  Store(@, d.token, [r EXCEPT !.id = d.token])]
       IN Ok(Emit(st2, "PSIRequested", reqId), reqId)

\* Lines 63-98: derive the id, write the record, gather, dispatch.
recordAndDispatch(st, sender, ts, participants, sizeOnly) ==
    LET reqId == keccak256(encodePacked(sender, ts, participants))
        r0 == Lookup(st.psiRequests, reqId, EmptyRequest)
        r == [r0 EXCEPT !.id = reqId, !.requester = sender,
                         !.participants = participants,
                         !.sizeOnly = sizeOnly, !.timestamp = ts]
        st1 == [st EXCEPT !.psiRequests = Store(@, reqId, r)]
    IN IF firstMissing(st1, participants, 1) # 0
       THEN Revert(st1, "Participant missing set")
       ELSE
       LET d == FHErequestComputation(st1, allCiphertexts(st1, participants),
                                      "receivePSIResult")
           st2 == [d.st EXCEPT !.psiRequests = Store(@, d.token, r)]
       IN Ok(Emit(st2, "PSIRequested", reqId), reqId)

\* Mutant: the length check admits a single participant.
requestMultiPSIBodyAtLeastOne(st, sender, ts, participants, sizeOnly) ==
    IF ~(Len(participants) >= 1) THEN Revert(st, "Need >=2 participants")
    ELSE recordAndDispatch(st, sender, ts, participants, sizeOnly)

requestMultiPSIBody(st, sender, ts, participants, sizeOnly) ==
    IF ~(Len(participants) >= 2) THEN Revert(st, "Need >=2 participants")
    ELSE recordAndDispatch(st, sender, ts, participants, sizeOnly)

\* --------------------------------------------------- receivePSIResult
\* FHE.checkSignatures(requestId, encryptedResult, proof): passes exactly for
\* a proof the engine issued over this token and this result.
FHEcheckSignatures(requestId, encryptedResult, proof) ==
    proof \in signed /\ proof = <<requestId, encryptedResult>>

\* Mutant: storing a result drops the results stored for other requests.
receivePSIResultBodyOnlyLatest(st, requestId, encryptedResult, proof) ==
    IF ~FHEcheckSignatures(requestId, encryptedResult, proof)
    THEN Revert(st, "Invalid proof")
    ELSE LET only == [id \in {requestId} |-> encryptedResult]
             st1 == [st EXCEPT !.psiResults = only]
         IN Ok(Emit(st1, "PSIResultReceived", requestId), requestId)

\* Mutant: the proof is not checked.
receivePSIResultBodyNoVerify(st, requestId, encryptedResult, proof) ==
    LET st1 == [st EXCEPT !.psiResults =
                             Store(@, requestId, encryptedResult)]
    IN Ok(Emit(st1, "PSIResultReceived", requestId), requestId)

\* Mutant: the proof is checked and the event emitted, the payload not stored.
receivePSIResultBodyNoStore(st, requestId, encryptedResult, proof) ==
    IF ~FHEcheckSignatures(requestId, encryptedResult, proof)
    THEN Revert(st, "Invalid proof")
    ELSE Ok(Emit(st, "PSIResultReceived", requestId), requestId)

receivePSIResultBody(st, requestId, encryptedResult, proof) ==
    IF ~FHEcheckSignatures(requestId, encryptedResult, proof)
    THEN Revert(st, "Invalid proof")
    ELSE LET st1 == [st EXCEPT !.psiResults =
                                  Store(@, requestId, encryptedResult)]
         IN Ok(Emit(st1, "PSIResultReceived", requestId), requestId)

\* ------------------------------------------------------------- views
getEncryptedPSIResult(requestId) == Lookup(psiResults, requestId, EmptyBytes)
getSetId(owner) == ownerToSetId[owner]
getEncryptedSetItems(setId) == Lookup(encryptedSets, setId, EmptySet).items

\* ------------------------------------------------------ transactions
NoCall == [op |-> "none", id |-> 0, ok |-> TRUE, err |-> ""]

\* Mutant: a failing require() returns early and keeps the writes made so far.
TransactNoRollback(out, op, id) ==
    /\ lastCall' = [op |-> op, id |-> id, ok |-> out.ok, err |-> out.err]
    /\ setCount' = out.st.setCount
    /\ ownerToSetId' = out.st.ownerToSetId
    /\ encryptedSets' = out.st.encryptedSets
    /\ psiRequests' = out.st.psiRequests
    /\ psiResults' = out.st.psiResults
    /\ events' = out.st.events
    /\ fheCounter' = out.st.fheCounter
    /\ fheRequests' = out.st.fheRequests
    /\ UNCHANGED <<signed, now>>
    /\ UNCHANGED clientVars

\* A transaction commits the writes of its body, or reverts: a failing
\* require() undoes every write made before it.  The receipt records the
\* function, the id it was about, and the outcome.
Transact(out, op, id) ==
    /\ lastCall' = [op |-> op, id |-> id, ok |-> out.ok, err |-> out.err]
    /\ IF out.ok
       THEN /\ setCount' = out.st.setCount
            /\ ownerToSetId' = out.st.ownerToSetId
            /\ encryptedSets' = out.st.encryptedSets
            /\ psiRequests' = out.st.psiRequests
            /\ psiResults' = out.st.psiResults
            /\ events' = out.st.events
            /\ fheCounter' = out.st.fheCounter
            /\ fheRequests' = out.st.fheRequests
       ELSE UNCHANGED <<setCount, ownerToSetId, encryptedSets, psiRequests,
                        psiResults, events, fheCounter, fheRequests>>
    /\ UNCHANGED <<signed, now>>
    /\ UNCHANGED clientVars

submitEncryptedSet(sender, items) ==
    /\ setCount < MaxSets
    /\ LET out == submitEncryptedSetBody(Storage, sender, now, items)
       IN Transact(out, "submitEncryptedSet", out.ret)

requestMultiPSI(sender, participants, sizeOnly) ==
    /\ fheCounter + 1 \in EngineTokens
    /\ LET out == requestMultiPSIBody(Storage, sender, now, participants,
                                      sizeOnly)
       IN Transact(out, "requestMultiPSI", out.ret)

\* Mutant: the payload is stored before the proof is checked, and a failed
\* check returns without reverting.
receivePSIResultKeepsWrites(requestId, encryptedResult, proof) ==
    /\ CopiesIn(<<"PSIResultReceived", requestId>>, events) < MaxCallbacks
    /\ LET out == receivePSIResultBody(Storage, requestId, encryptedResult,
                                       proof)
           early == [Storage EXCEPT !.psiResults =
                                       Store(@, requestId, encryptedResult)]
       IN TransactNoRollback(IF out.ok THEN out ELSE Revert(early, out.err),
                             "receivePSIResult", out.ret)

receivePSIResult(requestId, encryptedResult, proof) ==
    /\ CopiesIn(<<"PSIResultReceived", requestId>>, events) < MaxCallbacks
    /\ LET out == receivePSIResultBody(Storage, requestId, encryptedResult,
                                       proof)
       IN Transact(out, "receivePSIResult", out.ret)

\* The payload the engine computes for a token.
EngineResult(token) == <<token>>

\* The engine finishes a dispatched computation and signs its result; it
\* signs one result per token.
EngineCompute(token) ==
    /\ token \in DOMAIN fheRequests
    /\ \A p \in signed : p[1] # token
    /\ signed' = signed \cup {<<token, EngineResult(token)>>}
    /\ lastCall' = NoCall
    /\ UNCHANGED <<setCount, ownerToSetId, encryptedSets, psiRequests,
                   psiResults, events, fheCounter, fheRequests, now>>
    /\ UNCHANGED clientVars

\* A later block.
Tick ==
    /\ now + 1 \in Timestamps
    /\ now' = now + 1
    /\ lastCall' = NoCall
    /\ UNCHANGED <<setCount, ownerToSetId, encryptedSets, psiRequests,
                   psiResults, events, fheCounter, fheRequests, signed>>
    /\ UNCHANGED clientVars

\* ------------------------------------------------------------ inputs
RECURSIVE SeqsUpTo(_, _)
SeqsUpTo(S, n) ==
    IF n = 0 THEN {<<>>}
    ELSE LET shorter == SeqsUpTo(S, n - 1)
         IN shorter \cup {Append(q, x) : q \in shorter, x \in S}

\* Participant lists: every list over Addr of length 0 .. |Addr|.
ParticipantLists == SeqsUpTo(Addr, Cardinality(Addr))

\* Ids a caller may present to the callback: every key with a request
\* record, and the token the engine has not handed out yet.
CallbackIds == DOMAIN psiRequests \cup {fheCounter + 1}

\* The contract after deployment, the engine before any dispatch.
Deployed ==
    /\ setCount = 0
    /\ ownerToSetId = [a \in Addr |-> 0]
    /\ encryptedSets = <<>>
    /\ psiRequests = <<>>
    /\ psiResults = <<>>
    /\ events = EmptyBag
    /\ fheCounter = 0
    /\ fheRequests = <<>>
    /\ signed = {}
    /\ now = 1
    /\ lastCall = NoCall

\* No browser has opened the web client; its storage contract is empty.
NoBrowser ==
    /\ ledger = <<>>
    /\ unreadable = {}
    /\ client = <<>>
    /\ started = 0

Init == Deployed /\ NoBrowser

Next ==
    \/ \E sender \in Addr : \E items \in ItemInputs(setCount + 1) :
          submitEncryptedSet(sender, items)
    \/ \E sender \in Requesters : \E participants \in ParticipantLists :
          \E sizeOnly \in BOOLEAN :
             requestMultiPSI(sender, participants, sizeOnly)
    \/ \E requestId \in CallbackIds : \E encryptedResult \in Results :
          \E proof \in signed \cup {Forged} :
             receivePSIResult(requestId, encryptedResult, proof)
    \/ \E token \in DOMAIN fheRequests : EngineCompute(token)
    \/ Tick

Spec == Init /\ [][Next]_vars

\* ------------------------------------------------------ observations
contractVars == <<setCount, ownerToSetId, encryptedSets, psiRequests,
                  psiResults, events>>
engineVars == <<fheCounter, fheRequests>>

\* Number of accepted callbacks (PSIResultReceived events) for an id.
Commits(id) == CopiesIn(<<"PSIResultReceived", id>>, events)

\* What the contract lets an observer tell about a request: PSIRequest
\* (lines 23-29) has no status field, so a request is Completed once a
\* result was accepted for its id and Pending before.
RequestStatus(id) ==
    IF id \notin DOMAIN psiRequests THEN "None"
    ELSE IF Commits(id) > 0 THEN "Completed"
    ELSE "Pending"

\* Proofs a caller can present: the ones the engine issued, or a forged one.
Proofs == signed \cup {Forged}

\* ------------------------------------------------------------ claims

\* C1: result commit is idempotent -- over any sequence of callbacks at most
\* one result is ever committed per requestId; a later callback for an id
\* that already has a committed result is rejected.
C1_AtMostOneCommit ==
    \A id \in DOMAIN psiResults : Commits(id) <= 1

\* The step rejected a call and left results, requests and events alone.
RejectedUnchanged ==
    /\ lastCall'.ok = FALSE
    /\ psiResults' = psiResults
    /\ psiRequests' = psiRequests
    /\ events' = events

C3_OnlyVerifiedResults ==
    \A id \in DOMAIN psiResults :
        FHEcheckSignatures(id, psiResults[id], <<id, psiResults[id]>>)

\* A result has been committed by an accepted callback.
C3_Witness ==
    \E id \in DOMAIN psiResults :
        psiResults[id] # EmptyBytes /\ Commits(id) > 0

\* C4: after a callback with an invalid proof for a Pending request, that
\* request's status is Failed (and no result exists for it).
C4_InvalidProofMarksFailed ==
    [][lastCall'.op = "receivePSIResult" =>
       \A id \in CallbackIds : \A res \in Results : \A proof \in Proofs :
          (/\ RequestStatus(id) = "Pending"
           /\ ~FHEcheckSignatures(id, res, proof)
           /\ receivePSIResult(id, res, proof))
          => /\ RequestStatus(id)' = "Failed"
             /\ getEncryptedPSIResult(id)' = EmptyBytes]_vars

\* C5: a verified callback for a Pending request commits the callback's
\* payload under its requestId and completes the request; the result lookup
\* for that requestId then returns exactly that payload.
C5_VerifiedCallbackCommits ==
    [][lastCall'.op = "receivePSIResult" =>
       \A id \in CallbackIds : \A res \in Results : \A proof \in Proofs :
          \/ /\ lastCall'.ok = TRUE
             /\ id \in DOMAIN psiResults' /\ psiResults'[id] = res
             /\ RequestStatus(id)' = "Completed"
             /\ getEncryptedPSIResult(id)' = res
          \/ ~(/\ FHEcheckSignatures(id, res, proof)
               /\ RequestStatus(id) = "Pending"
               /\ receivePSIResult(id, res, proof))]_vars

\* The first verified callback for a request has just been accepted.
C5_Witness ==
    /\ lastCall.op = "receivePSIResult"
    /\ lastCall.ok = TRUE
    /\ lastCall.id \in DOMAIN psiRequests
    /\ Commits(lastCall.id) = 1
    /\ getEncryptedPSIResult(lastCall.id) = EngineResult(lastCall.id)

\* C6: the RequestId returned by requestComputation is the id under which
\* the result is found -- once the engine's verified callback (delivered with
\* the engine's token) is committed, the lookup under the returned RequestId
\* (the id field of the record stored for the token) yields that result.
C6_ResultUnderReturnedId ==
    \A token \in DOMAIN fheRequests :
        Commits(token) > 0
        => getEncryptedPSIResult(psiRequests[token].id)
             = getEncryptedPSIResult(token)

\* C7: requestComputation with fewer than 2 participants fails with the
\* participant-count error, leaves all stored state unchanged and dispatches
\* nothing.
C7_TooFewParticipantsRejected ==
    [][lastCall'.op = "requestMultiPSI" =>
       \A sender \in Requesters : \A participants \in ParticipantLists :
       \A sizeOnly \in BOOLEAN :
          (/\ Len(participants) < 2
           /\ requestMultiPSI(sender, participants, sizeOnly))
          => /\ lastCall'.ok = FALSE
             /\ lastCall'.err = "Need >=2 participants"
             /\ UNCHANGED contractVars
             /\ UNCHANGED engineVars]_vars

\* A request was rejected for its participant count although every address
\* already has a current set.
C7_Witness ==
    /\ lastCall.op = "requestMultiPSI"
    /\ lastCall.ok = FALSE
    /\ lastCall.err = "Need >=2 participants"
    /\ \A a \in Addr : ownerToSetId[a] # 0

\* Whether the entries of a list are pairwise distinct.
PairwiseDistinct(q) ==
    \A i \in 1..Len(q) : \A j \in 1..Len(q) : i # j => q[i] # q[j]

\* C8: requestComputation with a participants list that is not pairwise
\* distinct fails; no request is recorded and nothing is dispatched.
C8_DuplicateParticipantsRejected ==
    [][lastCall'.op = "requestMultiPSI" =>
       \A sender \in Requesters : \A participants \in ParticipantLists :
       \A sizeOnly \in BOOLEAN :
          (/\ ~PairwiseDistinct(participants)
           /\ requestMultiPSI(sender, participants, sizeOnly))
          => /\ lastCall'.ok = FALSE
             /\ UNCHANGED contractVars
             /\ UNCHANGED engineVars]_vars

\* Some listed participant has no current set.
MissingSet(participants) ==
    \E i \in 1..Len(participants) : ownerToSetId[participants[i]] = 0

\* (The claims below are written "outcome, or else not such a call" as well.)
\* What C9 promises of a failing call: the named error and no side effect;
\* in particular no record is left under the id derived for the call.
MissingSetOutcome(sender, participants) ==
    /\ lastCall'.ok = FALSE
    /\ lastCall'.err = "Participant missing set"
    /\ UNCHANGED contractVars
    /\ UNCHANGED engineVars
    /\ keccak256(encodePacked(sender, now, participants))
          \notin DOMAIN psiRequests'

\* C9 as stated: requestComputation fails with "Participant missing set"
\* whenever any listed participant has no current set, without side effects.
C9_MissingSetRejected ==
    [][lastCall'.op = "requestMultiPSI" =>
       \A sender \in Requesters : \A participants \in ParticipantLists :
       \A sizeOnly \in BOOLEAN :
          \/ MissingSetOutcome(sender, participants)
          \/ ~(/\ MissingSet(participants)
               /\ requestMultiPSI(sender, participants, sizeOnly))]_vars

\* C9 as amended: requestComputation with at least 2 participants fails with
\* "Participant missing set" whenever any listed participant has no current
\* set, and the failing call leaves no PSIRequest record under the derived
\* id, dispatches nothing and emits no event.
C9_MissingSetRejectedAfterCount ==
    [][lastCall'.op = "requestMultiPSI" =>
       \A sender \in Requesters : \A participants \in ParticipantLists :
       \A sizeOnly \in BOOLEAN :
          \/ MissingSetOutcome(sender, participants)
          \/ ~(/\ Len(participants) >= 2
               /\ MissingSet(participants)
               /\ requestMultiPSI(sender, participants, sizeOnly))]_vars

\* A request was rejected for a missing set while another participant's set
\* was already stored.
C9_Witness ==
    /\ lastCall.op = "requestMultiPSI"
    /\ lastCall.ok = FALSE
    /\ lastCall.err = "Participant missing set"
    /\ setCount > 0

\* The handles of the participants' current sets, participant by
\* participant, and the sum of the sets' sizes.
RECURSIVE FlatHandles(_)
FlatHandles(participants) ==
    IF participants = <<>> THEN <<>>
    ELSE getEncryptedSetItems(getSetId(Head(participants)))
         \o FlatHandles(Tail(participants))

RECURSIVE SumSizes(_)
SumSizes(participants) ==
    IF participants = <<>> THEN 0
    ELSE Len(getEncryptedSetItems(getSetId(Head(participants))))
         + SumSizes(Tail(participants))

\* C10: for every successful requestComputation the handle sequence
\* dispatched to the engine is the concatenation, in listed participant
\* order, of each participant's current set's handles in intra-set order, and
\* its length is the sum of the sizes of those sets.
C10_DispatchIsConcatenation ==
    [][(lastCall'.op = "requestMultiPSI" /\ lastCall'.ok = TRUE) =>
       \A sender \in Requesters : \A participants \in ParticipantLists :
       \A sizeOnly \in BOOLEAN :
          requestMultiPSI(sender, participants, sizeOnly)
          => /\ fheCounter' \in DOMAIN fheRequests'
             /\ fheCounter' \notin DOMAIN fheRequests
             /\ fheRequests'[fheCounter'].cts = FlatHandles(participants)
             /\ Len(fheRequests'[fheCounter'].cts) = SumSizes(participants)
        ]_vars

\* A dispatch was made for two different owners whose sets differ in size,
\* one of them holding several handles.
C10_Witness ==
    \E token \in DOMAIN fheRequests :
        LET p == psiRequests[token].participants
        IN /\ lastCall.op = "requestMultiPSI" /\ lastCall.ok = TRUE
           /\ Len(p) = 2 /\ p[1] # p[2]
           /\ Len(getEncryptedSetItems(getSetId(p[1]))) = MaxItems
           /\ Len(getEncryptedSetItems(getSetId(p[2]))) = 1
           /\ Len(fheRequests[token].cts) = MaxItems + 1

\* Ids of the sets an owner has submitted, and the latest of them (0: none).
SetsOf(owner) ==
    {id \in DOMAIN encryptedSets : encryptedSets[id].owner = owner}
LatestOf(owner) ==
    IF SetsOf(owner) = {} THEN 0
    ELSE CHOOSE id \in SetsOf(owner) : \A other \in SetsOf(owner) : other <= id

\* C14: the owner pointer records only the most recently submitted set per
\* owner -- every submission stores the submitted handles for its sender
\* under the id it returns and moves only the sender's pointer to that id, so
\* that getSetId(owner) is always the owner's latest submission; every stored
\* set stays retrievable by id with its original contents.
C14_PointerIsLatestOldSetsKept ==
    [][/\ \A id \in DOMAIN encryptedSets :
              /\ id \in DOMAIN encryptedSets'
              /\ encryptedSets'[id] = encryptedSets[id]
       /\ \A owner \in Addr : getSetId(owner)' = LatestOf(owner)'
       /\ lastCall'.op = "submitEncryptedSet" =>
             \A sender \in Addr : \A items \in ItemInputs(setCount + 1) :
                submitEncryptedSet(sender, items)
                => /\ lastCall'.ok = TRUE
                   /\ lastCall'.id \notin DOMAIN encryptedSets
                   /\ getSetId(sender)' = lastCall'.id
                   /\ encryptedSets'[lastCall'.id].owner = sender
                   /\ encryptedSets'[lastCall'.id].items = items
                   /\ \A other \in Addr \ {sender} :
                         getSetId(other)' = getSetId(other)
      ]_vars

\* An owner has just submitted a second set: the pointer names it, and the
\* first set is still stored with its handles.
C14_Witness ==
    \E owner \in Addr :
        /\ lastCall.op = "submitEncryptedSet"
        /\ Cardinality(SetsOf(owner)) = 2
        /\ getSetId(owner) = lastCall.id
        /\ \E old \in SetsOf(owner) :
              /\ old # getSetId(owner)
              /\ getEncryptedSetItems(old) # <<>>

\* C16: the PSIRequest is recorded before the id is returned -- when a
\* requestMultiPSI call returns an id, a record with that id, the requester,
\* the participants and sizeOnly is stored under it and the request is
\* Pending; a Pending request stays Pending in every step that is not an
\* accepted callback for its id.
C16_RecordedPendingBeforeReturn ==
    [][/\ (lastCall'.op = "requestMultiPSI" /\ lastCall'.ok = TRUE) =>
             \A sender \in Requesters : \A participants \in ParticipantLists :
             \A sizeOnly \in BOOLEAN :
                requestMultiPSI(sender, participants, sizeOnly)
                => \E id \in DOMAIN psiRequests' :
                      /\ id = lastCall'.id
                      /\ psiRequests'[id].id = id
                      /\ psiRequests'[id].requester = sender
                      /\ psiRequests'[id].participants = participants
                      /\ psiRequests'[id].sizeOnly = sizeOnly
                      /\ RequestStatus(id)' = "Pending"
       /\ \A id \in DOMAIN psiRequests :
             (/\ RequestStatus(id) = "Pending"
              /\ ~(/\ lastCall'.op = "receivePSIResult"
                    /\ lastCall'.ok = TRUE
                    /\ lastCall'.id = id))
             => RequestStatus(id)' = "Pending"
      ]_vars

\* A size-only request recorded at the first timestamp is still Pending under
\* the id it returned at a later time, after the engine has signed a result.
C16_Witness ==
    \E id \in DOMAIN psiRequests :
        /\ psiRequests[id].id = id
        /\ psiRequests[id].sizeOnly = TRUE
        /\ psiRequests[id].timestamp < now
        /\ signed # {}
        /\ RequestStatus(id) = "Pending"

\* What the engine is handed by a successful call with these arguments.
DispatchOf(sender, participants, sizeOnly) ==
    LET out == requestMultiPSIBody(Storage, sender, now, participants,
                                   sizeOnly)
    IN out.st.fheRequests[out.st.fheCounter]

\* C17: every dispatch handed to the engine carries the request's sizeOnly
\* flag with the handle sequence and the callback identifier -- the dispatch
\* of a successful request differs from the dispatch the same request would
\* produce with the other value of sizeOnly.
C17_DispatchCarriesSizeOnly ==
    [][(lastCall'.op = "requestMultiPSI" /\ lastCall'.ok = TRUE) =>
       \A sender \in Requesters : \A participants \in ParticipantLists :
       \A sizeOnly \in BOOLEAN :
          requestMultiPSI(sender, participants, sizeOnly)
          => /\ fheRequests'[fheCounter']
                   = DispatchOf(sender, participants, sizeOnly)
             /\ DispatchOf(sender, participants, sizeOnly)
                   # DispatchOf(sender, participants, ~sizeOnly)
      ]_vars

\* C23: rejecting callback paths do not mutate ledger state -- a callback
\* that is rejected (for an unknown request, a duplicate, or a proof that does
\* not verify) leaves psiResults, psiRequests, the stored sets and the owner
\* pointers exactly as they were before the call.
C23_RejectedCallbackFrame ==
    [][(lastCall'.op = "receivePSIResult" /\ lastCall'.ok = FALSE) =>
          /\ psiResults' = psiResults
          /\ psiRequests' = psiRequests
          /\ encryptedSets' = encryptedSets
          /\ ownerToSetId' = ownerToSetId
          /\ setCount' = setCount
      ]_vars

\* A callback was rejected while sets, a request record and a committed
\* result were stored.
C23_Witness ==
    /\ lastCall.op = "receivePSIResult"
    /\ lastCall.ok = FALSE
    /\ psiResults # <<>>
    /\ psiRequests # <<>>
    /\ \E a \in Addr : ownerToSetId[a] # 0

\* C24: an EncryptedSet is immutable after creation -- for every set id, its
\* owner, items and timestamp never change after the submitSet that created
\* it, under any later submitSet, requestComputation or callback.
C24_SetsImmutable ==
    [][\A id \in DOMAIN encryptedSets :
          /\ id \in DOMAIN encryptedSets'
          /\ encryptedSets'[id].id = id
          /\ encryptedSets'[id].owner = encryptedSets[id].owner
          /\ encryptedSets'[id].items = encryptedSets[id].items
          /\ encryptedSets'[id].timestamp = encryptedSets[id].timestamp
      ]_vars

\* The first set, created in the first block with handles, is stored in a
\* later block after its owner submitted again, a request was dispatched and
\* a result was committed.
C24_Witness ==
    /\ now > 1
    /\ 1 \in DOMAIN encryptedSets
    /\ encryptedSets[1].timestamp = 1
    /\ encryptedSets[1].items # <<>>
    /\ Cardinality(SetsOf(encryptedSets[1].owner)) = 2
    /\ psiRequests # <<>>
    /\ psiResults # <<>>

\* C25: after every successful requestMultiPSI the same request record (id,
\* requester, participants, sizeOnly, timestamp) is stored under both the
\* derived request id and the engine's returned token, and the record stored
\* under the engine token still carries the derived request id in its id
\* field.
C25_RecordUnderBothKeys ==
    [][(lastCall'.op = "requestMultiPSI" /\ lastCall'.ok = TRUE) =>
       \A sender \in Requesters : \A participants \in ParticipantLists :
       \A sizeOnly \in BOOLEAN :
          requestMultiPSI(sender, participants, sizeOnly)
          => LET reqId == keccak256(encodePacked(sender, now, participants))
                 r == [id |-> reqId, requester |-> sender,
                       participants |-> participants,
                       sizeOnly |-> sizeOnly, timestamp |-> now]
             IN /\ lastCall'.id = reqId
                /\ fheCounter' = fheCounter + 1
                /\ fheCounter' \in DOMAIN fheRequests'
                /\ {reqId, fheCounter'} \subseteq DOMAIN psiRequests'
                /\ psiRequests'[reqId] = r
                /\ psiRequests'[fheCounter'] = r
                /\ psiRequests'[fheCounter'].id = reqId
      ]_vars

\* A request has just returned: its record is stored under two different
\* keys, the returned id and the engine's token.
C25_Witness ==
    /\ lastCall.op = "requestMultiPSI"
    /\ lastCall.ok = TRUE
    /\ fheCounter \in DOMAIN psiRequests
    /\ lastCall.id \in DOMAIN psiRequests
    /\ lastCall.id # fheCounter
    /\ psiRequests[fheCounter] = psiRequests[lastCall.id]
    /\ Len(psiRequests[fheCounter].participants) = 2

\* C27: two concurrent submitSet calls by the same owner are last-write-wins
\* on the owner pointer -- the calls commit one after the other in either
\* order; the later one gets an id different from the earlier one's, leaves
\* the earlier set stored and retrievable with its handles, stores its own
\* handles under its id, and the owner pointer then equals its id.
C27_LastWriteWins ==
    [][lastCall'.op = "submitEncryptedSet" =>
       \A sender \in Addr : \A items \in ItemInputs(setCount + 1) :
          (getSetId(sender) # 0 /\ submitEncryptedSet(sender, items))
          => LET first == getSetId(sender)
                 handles == getEncryptedSetItems(first)
             IN /\ lastCall'.ok = TRUE
                /\ lastCall'.id # first
                /\ {first, lastCall'.id} \subseteq DOMAIN encryptedSets'
                /\ encryptedSets'[first].items = handles
                /\ encryptedSets'[first].owner = sender
                /\ encryptedSets'[lastCall'.id].items = items
                /\ encryptedSets'[lastCall'.id].owner = sender
                /\ ownerToSetId'[sender] = lastCall'.id
      ]_vars

\* One owner's two submissions have both committed, the shorter one last:
\* the pointer names the shorter one and the longer one is still stored.
C27_Witness ==
    \E owner \in Addr :
        /\ lastCall.op = "submitEncryptedSet"
        /\ SetsOf(owner) = {1, 2}
        /\ Len(getEncryptedSetItems(1)) = MaxItems
        /\ Len(getEncryptedSetItems(2)) = 1
        /\ getSetId(owner) = 2

\* Number of EncryptedSetSubmitted events: the successful submissions.
Submissions ==
    LET emitted == {e \in BagToSet(events) : e[1] = "EncryptedSetSubmitted"}
    IN BagCardinality([e \in emitted |-> CopiesIn(e, events)])

\* C30: owner-pointer consistency -- in every reachable contract state,
\* setCount equals the number of successful submissions, the stored set ids
\* are exactly 1..setCount (id 0 is never assigned, so a pointer value of 0
\* means "no set"), and for every owner o with ownerToSetId[o] # 0 the
\* pointer is <= setCount and encryptedSets[ownerToSetId[o]].owner = o.
C30_OwnerPointerConsistent ==
    /\ setCount = Submissions
    /\ DOMAIN encryptedSets = 1..setCount
    /\ \A id \in DOMAIN encryptedSets : encryptedSets[id].id = id
    /\ \A o \in Addr :
          ownerToSetId[o] # 0
          => /\ ownerToSetId[o] \in 1..setCount
             /\ encryptedSets[ownerToSetId[o]].owner = o

\* Every address has a current set, and the first set stored belongs to the
\* address that submitted last but one.
C30_Witness ==
    /\ setCount = MaxSets
    /\ \A o \in Addr : ownerToSetId[o] # 0
    /\ \E o \in Addr : ownerToSetId[o] = 1 /\ encryptedSets[1].owner = o
    /\ psiRequests # <<>>

\* ------------------------------------------- several requests per run
\* dispatches explored when requests are repeated
MaxRequests == 2

\* requestMultiPSI, explored up to MaxRequests dispatches.
requestMultiPSIRepeated(sender, participants, sizeOnly) ==
    /\ fheCounter < MaxRequests
    /\ LET out == requestMultiPSIBody(Storage, sender, now, participants,
                                      sizeOnly)
       IN Transact(out, "requestMultiPSI", out.ret)

\* Submissions, requests by any address (several per block), later blocks.
NextRepeated ==
    \/ \E sender \in Addr : \E items \in ItemInputs(setCount + 1) :
          submitEncryptedSet(sender, items)
    \/ \E sender \in Addr : \E participants \in ParticipantLists :
          \E sizeOnly \in BOOLEAN :
             requestMultiPSIRepeated(sender, participants, sizeOnly)
    \/ Tick

SpecRepeated == Init /\ [][NextRepeated]_vars

\* Number of successful requests that returned this id.
Returned(id) == CopiesIn(<<"PSIRequested", id>>, events)

\* C15: no PSIRequest reuses an id -- any two successful requestMultiPSI
\* calls (a resubmission by the same requester with the same participants at
\* the same timestamp included) return distinct ids, so no id is returned by
\* more than one successful call.
C15_DistinctRequestIds ==
    \A id \in DOMAIN psiRequests : Returned(id) <= 1

\* ------------------------------------- several requests with callbacks
\* tokens the engine hands out when two requests are dispatched
TwoTokens == {1, 2}

\* requestMultiPSI, explored for the engine's first two tokens.
requestMultiPSITwice(sender, participants, sizeOnly) ==
    /\ fheCounter + 1 \in TwoTokens
    /\ LET out == requestMultiPSIBody(Storage, sender, now, participants,
                                      sizeOnly)
       IN Transact(out, "requestMultiPSI", out.ret)

\* Within one block: submissions and two requests of one requester, the
\* engine's results and the callbacks.
FramesNext ==
    \/ \E sender \in Requesters : \E items \in ItemInputs(setCount + 1) :
          submitEncryptedSet(sender, items)
    \/ \E sender \in Requesters : \E participants \in ParticipantLists :
          \E sizeOnly \in BOOLEAN :
             requestMultiPSITwice(sender, participants, sizeOnly)
    \/ \E requestId \in CallbackIds : \E encryptedResult \in Results :
          \E proof \in signed \cup {Forged} :
             receivePSIResult(requestId, encryptedResult, proof)
    \/ \E token \in DOMAIN fheRequests : EngineCompute(token)

SpecFrames == Init /\ [][FramesNext]_vars

\* The step changed a mapping at most under the given keys.
OnlyUnder(before, after, keys) ==
    /\ DOMAIN before \subseteq DOMAIN after
    /\ DOMAIN after \subseteq DOMAIN before \cup keys
    /\ \A k \in DOMAIN before \ keys : after[k] = before[k]

\* C31: operation frames -- a successful receivePSIResult(id, ...) changes
\* only psiResults[id] (no other result, no request record, no set, no
\* pointer, not setCount); a successful requestMultiPSI changes only the
\* psiRequests entries under the derived id and the engine token and leaves
\* setCount, ownerToSetId, encryptedSets and psiResults unchanged;
\* submitEncryptedSet leaves psiRequests and psiResults unchanged.
C31_OperationFrames ==
    [][/\ (lastCall'.op = "receivePSIResult" /\ lastCall'.ok = TRUE)
             => /\ OnlyUnder(psiResults, psiResults', {lastCall'.id})
                /\ psiRequests' = psiRequests
                /\ encryptedSets' = encryptedSets
                /\ ownerToSetId' = ownerToSetId
                /\ setCount' = setCount
       /\ (lastCall'.op = "requestMultiPSI" /\ lastCall'.ok = TRUE)
             => /\ OnlyUnder(psiRequests, psiRequests',
                             {lastCall'.id, fheCounter'})
                /\ setCount' = setCount
                /\ ownerToSetId' = ownerToSetId
                /\ encryptedSets' = encryptedSets
                /\ psiResults' = psiResults
       /\ lastCall'.op = "submitEncryptedSet"
             => /\ psiRequests' = psiRequests
                /\ psiResults' = psiResults
      ]_vars

\* The callback for the second request has just been accepted while the
\* result of the first request is stored; a set was submitted before.
C31_Witness ==
    /\ lastCall.op = "receivePSIResult"
    /\ lastCall.ok = TRUE
    /\ lastCall.id = 2
    /\ {1, 2} \subseteq DOMAIN psiResults
    /\ psiResults[1] = EngineResult(1)
    /\ psiResults[2] = EngineResult(2)
    /\ setCount > 0

\* --------------------------------------------- id derivation (line 63)
\* The storage of the freshly deployed contract.
DeployedStorage ==
    [setCount |-> 0, ownerToSetId |-> [a \in Addr |-> 0],
     encryptedSets |-> <<>>, psiRequests |-> <<>>, psiResults |-> <<>>,
     events |-> EmptyBag, fheCounter |-> 0, fheRequests |-> <<>>]

\* The ledger once every address has submitted a set in the first block,
\* address by address.
RECURSIVE EveryoneSubmitted(_, _, _)
EveryoneSubmitted(st, a, itemsOf) ==
    IF a \notin Addr THEN st
    ELSE EveryoneSubmitted(submitEncryptedSetBody(st, a, 1, itemsOf[a]).st,
                           a + 1, itemsOf)

\* Requests are derived over ledgers that differ in the stored sets.
DeriveInit ==
    /\ \E itemsOf \in [Addr -> UNION {ItemInputs(a) : a \in Addr}] :
          /\ \A a \in Addr : itemsOf[a] \in ItemInputs(a)
          /\ LET st == EveryoneSubmitted(DeployedStorage, 1, itemsOf)
             IN /\ setCount = st.setCount
                /\ ownerToSetId = st.ownerToSetId
                /\ encryptedSets = st.encryptedSets
                /\ psiRequests = st.psiRequests
                /\ psiResults = st.psiResults
                /\ events = st.events
                /\ fheCounter = st.fheCounter
                /\ fheRequests = st.fheRequests
    /\ signed = {}
    /\ now = 1
    /\ lastCall = NoCall
    /\ NoBrowser

\* Requests by any address, several per block, and later blocks.
DeriveNext ==
    \/ \E sender \in Addr : \E participants \in ParticipantLists :
          \E sizeOnly \in BOOLEAN :
             requestMultiPSIRepeated(sender, participants, sizeOnly)
    \/ Tick

SpecDerive == DeriveInit /\ [][DeriveNext]_vars

\* What a stored request record says its id was derived from.
DerivedFrom(r) == <<r.requester, r.timestamp, r.participants>>

\* C26: RequestId is a deterministic function of exactly (requester,
\* timestamp, participants in listed order) -- two requestComputation calls
\* agreeing on these three inputs derive the same id regardless of sizeOnly
\* or of the ledger state, and calls differing in any of the three
\* (participant order included) derive different ids.  Read off the records
\* the calls left under the engine's tokens and under the derived ids.
C26_IdIsFunctionOfInputs ==
    /\ \A k1 \in DOMAIN psiRequests : \A k2 \in DOMAIN psiRequests :
          (psiRequests[k1].id = psiRequests[k2].id)
          <=> (DerivedFrom(psiRequests[k1]) = DerivedFrom(psiRequests[k2]))
    /\ \A k \in DOMAIN psiRequests :
          psiRequests[k].id = keccak256(encodePacked(psiRequests[k].requester,
                                                     psiRequests[k].timestamp,
                                                     psiRequests[k].participants))
    /\ (lastCall.op = "requestMultiPSI" /\ lastCall.ok)
          => /\ lastCall.id \in DOMAIN psiRequests
             /\ psiRequests[fheCounter].id = lastCall.id

\* Two calls of one requester in one block listed the same two participants
\* in opposite orders and got different ids.
C26_Witness ==
    \E k1 \in DOMAIN psiRequests : \E k2 \in DOMAIN psiRequests :
        LET r1 == psiRequests[k1]
            r2 == psiRequests[k2]
        IN /\ r1.requester = r2.requester
           /\ r1.timestamp = r2.timestamp
           /\ Len(r1.participants) = 2
           /\ r1.participants[1] # r1.participants[2]
           /\ r2.participants = <<r1.participants[2], r1.participants[1]>>
           /\ r1.id # r2.id

\* ====================================================== web client (App.tsx)
\* Browsers running App against one shared storage contract
\* (contract.getData / contract.setData).  An async function is cut at the
\* points where its awaited ledger call takes effect or a state setter is
\* observed; one browser runs one user action at a time.

\* browsers, each with its own wallet account (the browser's number)
Clients == {1, 2}
\* outcomes of Math.random().toString(36).substring(2, 9)
Suffixes == {1, 2}
\* record families of the ledger: `set_${id}` / `result_${id}`
Kinds == {"set", "result"}
\* user actions (submit, compute, refresh) started per run
MaxActions == 2
\* the elements field as typed: comma-separated items, 0 a blank item
RawInputs == {<<0>>, <<1, 0>>}

\* ---------------------------------------------------- storage contract
\* `set_keys` / `result_keys`, and `set_${id}` / `result_${id}`
IndexKey(kind) == <<kind, "keys", 0, 0>>
RecordKey(kind, id) == <<kind, "id", id[1], id[2]>>

\* contract.getData(key): the bytes last written, empty for an absent key.
getData(key) == Lookup(ledger, key, EmptyBytes)

\* contract.setData(key, bytes): unconditional upsert.
setData(key, bytes) == Store(ledger, key, bytes)

\* -------------------------------------------- JSON text, token by token
\* Structural tokens are 1-tuples, a member id is <<"id", time, suffix>>, a
\* field value is <<"v", value>>.
Garbage == <<<<"#">>>>

IdToken(id) == <<"id", id[1], id[2]>>

RECURSIVE joinKeys(_)
joinKeys(keys) ==
    IF keys = <<>> THEN <<>>
    ELSE IF Len(keys) = 1 THEN <<IdToken(keys[1])>>
    ELSE <<IdToken(keys[1]), <<",">>>> \o joinKeys(Tail(keys))

\* ethers.toUtf8Bytes(JSON.stringify(keys)) for a string array.
stringifyKeys(keys) == <<<<"[">>>> \o joinKeys(keys) \o <<<<"]">>>>

\* Whether JSON.parse(ethers.toUtf8String(bytes)) yields an array of ids.
parsesAsKeys(bytes) ==
    /\ Len(bytes) >= 2
    /\ bytes[1] = <<"[">>
    /\ bytes[Len(bytes)] = <<"]">>
    /\ \/ Len(bytes) = 2
       \/ /\ Len(bytes) % 2 = 1
          /\ \A j \in 2..(Len(bytes) - 1) :
                IF j % 2 = 0 THEN Len(bytes[j]) = 3 ELSE bytes[j] = <<",">>

parseKeys(bytes) ==
    [k \in 1..((Len(bytes) - 1) \div 2) |->
        <<bytes[2 * k][2], bytes[2 * k][3]>>]

\* ethers.toUtf8Bytes(JSON.stringify(setData)), fields in insertion order.
stringifySet(r) ==
    <<<<"{">>, <<"v", r.name>>, <<"v", r.data>>, <<"v", r.timestamp>>,
      <<"v", r.owner>>, <<"v", r.size>>, <<"}">>>>

stringifyResult(r) ==
    <<<<"{">>, <<"v", r.setName1>>, <<"v", r.setName2>>,
      <<"v", r.intersectionSize>>, <<"v", r.timestamp>>, <<"v", r.status>>,
      <<"}">>>>

\* Whether JSON.parse yields an object whose fields can be read.
parsesAsRecord(bytes) ==
    /\ Len(bytes) = 7
    /\ bytes[1] = <<"{">>
    /\ bytes[7] = <<"}">>
    /\ \A j \in 2..6 : Len(bytes[j]) = 2

\* The list entry loadData builds from a parsed record (lines 117-124,
\* 157-164).
setEntry(key, bytes) ==
    [id |-> key, name |-> bytes[2][2], encryptedData |-> bytes[3][2],
     timestamp |-> bytes[4][2], owner |-> bytes[5][2], size |-> bytes[6][2]]

resultEntry(key, bytes) ==
    [id |-> key, setName1 |-> bytes[2][2], setName2 |-> bytes[3][2],
     intersectionSize |-> bytes[4][2], timestamp |-> bytes[5][2],
     status |-> bytes[6][2]]

\* list.sort((a, b) => b.timestamp - a.timestamp): stable, newest first.
RECURSIVE insertByTimestamp(_, _)
insertByTimestamp(sorted, e) ==
    IF sorted = <<>> THEN <<e>>
    ELSE IF Head(sorted).timestamp >= e.timestamp
         THEN <<Head(sorted)>> \o insertByTimestamp(Tail(sorted), e)
         ELSE <<e>> \o sorted

RECURSIVE sortNewestFirst(_)
sortNewestFirst(list) ==
    IF list = <<>> THEN <<>>
    ELSE insertByTimestamp(sortNewestFirst(SubSeq(list, 1, Len(list) - 1)),
                           list[Len(list)])

\* ------------------------------------------------------- React state
Hidden == [visible |-> FALSE, status |-> "pending"]
Shown(status) == [visible |-> TRUE, status |-> status]

NoId == <<0, 0>>

\* App after its first render, before the mount effect's loadData has run.
Mounted ==
    [pc |-> "loadIndex", op |-> "mount", input |-> <<>>, id |-> NoId,
     keys |-> <<>>, transactionStatus |-> Hidden, timers |-> 0,
     creating |-> FALSE, isRefreshing |-> TRUE,
     sets |-> <<>>, results |-> <<>>,
     loadKind |-> "set", loadKeys |-> <<>>, loadList |-> <<>>, i |-> 0]

\* The async function has returned: its locals are gone.
functionReturned(cl) ==
    [cl EXCEPT !.pc = "idle", !.op = "none", !.input = <<>>, !.id = NoId,
               !.keys = <<>>, !.loadKind = "set", !.loadKeys = <<>>,
               !.loadList = <<>>, !.i = 0]

\* The family of records the running action writes.
KindOf(cl) == IF cl.op = "compute" THEN "result" ELSE "set"

\* newSetData.elements.split(",").map(e => e.trim()).filter(e => e)
RECURSIVE parseElements(_)
parseElements(raw) ==
    IF raw = <<>> THEN <<>>
    ELSE IF Head(raw) = 0 THEN parseElements(Tail(raw))
    ELSE <<Head(raw)>> \o parseElements(Tail(raw))

\* `FHE-${btoa(JSON.stringify(elements))}`
encryptElements(elements) == <<"FHE">> \o elements

\* `${Date.now()}-${Math.random().toString(36).substring(2, 9)}`
freshId(suffix) == <<now, suffix>>

\* sets.find(s => s.id === wanted): the first match, or NoId's entry.
RECURSIVE find(_, _)
find(list, wanted) ==
    IF list = <<>> THEN [id |-> NoId]
    ELSE IF Head(list).id = wanted THEN Head(list)
    ELSE find(Tail(list), wanted)

Min(a, b) == IF a <= b THEN a ELSE b

Step(c, cl) ==
    /\ client' = [client EXCEPT ![c] = cl]
    /\ UNCHANGED <<setCount, ownerToSetId, encryptedSets, psiRequests,
                   psiResults, events, fheCounter, fheRequests, signed, now,
                   lastCall, unreadable>>

\* ------------------------------------------------------------ loadData
\* What remains of the caller once loadData has returned (lines 178-181,
\* then 255-262 / 277-279 for submitSet, 367-369 for computePSI): the reset
\* timer is armed and the busy flags are released.
afterLoad(cl) ==
    LET done == [cl EXCEPT !.isRefreshing = FALSE]
    IN IF cl.op \in {"submit", "compute"}
       THEN functionReturned([done EXCEPT !.timers = @ + 1, !.creating = FALSE])
       ELSE functionReturned(done)

\* The loop over one family has ended (lines 134-135 / 174-175): sort,
\* publish, go on with the results or return.
endOfList(cl) ==
    IF cl.loadKind = "set"
    THEN [cl EXCEPT !.sets = sortNewestFirst(cl.loadList),
                    !.pc = "loadIndex", !.loadKind = "result",
                    !.loadKeys = <<>>, !.loadList = <<>>, !.i = 0]
    ELSE afterLoad([cl EXCEPT !.results = sortNewestFirst(cl.loadList)])

\* Lines 84-109 / 137-149: (for the sets: the availability check, then) the
\* index is read and parsed; an unparsable index counts as empty.
loadIndexBody(cl, available) ==
    IF cl.loadKind = "set" /\ ~available THEN afterLoad(cl)
    ELSE LET bytes == getData(IndexKey(cl.loadKind))
             keys == IF Len(bytes) > 0 /\ parsesAsKeys(bytes)
                     THEN parseKeys(bytes) ELSE <<>>
             cl1 == [cl EXCEPT !.loadKeys = keys, !.loadList = <<>>,
                               !.i = 1, !.pc = "loadRecord"]
         IN IF keys = <<>> THEN endOfList(cl1) ELSE cl1

\* Mutant: a record that fails to parse aborts the whole listing (the
\* exception reaches the outer catch at line 176).
loadRecordBodyAbortOnParse(cl) ==
    LET key == cl.loadKeys[cl.i]
        rkey == RecordKey(cl.loadKind, key)
        bytes == getData(rkey)
    IN IF rkey \notin unreadable /\ Len(bytes) > 0 /\ ~parsesAsRecord(bytes)
       THEN afterLoad(cl)
       ELSE
       LET entry == IF cl.loadKind = "set" THEN setEntry(key, bytes)
                    ELSE resultEntry(key, bytes)
           keep == /\ rkey \notin unreadable
                   /\ Len(bytes) > 0
           cl1 == [cl EXCEPT !.loadList = IF keep THEN Append(@, entry)
                                          ELSE @,
                             !.i = @ + 1]
       IN IF cl1.i > Len(cl1.loadKeys) THEN endOfList(cl1) ELSE cl1

\* Lines 111-132 / 151-172: one iteration; a failing read, an empty record
\* and a record that does not parse are skipped.
loadRecordBody(cl) ==
    LET key == cl.loadKeys[cl.i]
        rkey == RecordKey(cl.loadKind, key)
        bytes == getData(rkey)
        entry == IF cl.loadKind = "set" THEN setEntry(key, bytes)
                 ELSE resultEntry(key, bytes)
        keep == /\ rkey \notin unreadable
                /\ Len(bytes) > 0
                /\ parsesAsRecord(bytes)
        cl1 == [cl EXCEPT !.loadList = IF keep THEN Append(@, entry) ELSE @,
                          !.i = @ + 1]
    IN IF cl1.i > Len(cl1.loadKeys) THEN endOfList(cl1) ELSE cl1

LoadIndex(c, available) ==
    /\ client[c].pc = "loadIndex"
    /\ Step(c, loadIndexBody(client[c], available))
    /\ UNCHANGED <<ledger, started>>

LoadRecord(c) ==
    /\ client[c].pc = "loadRecord"
    /\ Step(c, loadRecordBody(client[c]))
    /\ UNCHANGED <<ledger, started>>

\* The Refresh button (lines 629-633): loadData on its own.
Refresh(c) ==
    /\ client[c].pc = "idle"
    /\ ~client[c].isRefreshing
    /\ started < MaxActions
    /\ started' = started + 1
    /\ Step(c, [client[c] EXCEPT !.pc = "loadIndex", !.op = "refresh",
                                 !.loadKind = "set", !.isRefreshing = TRUE])
    /\ UNCHANGED ledger

\* ----------------------------------------------- submitSet / computePSI
\* The exception path: an awaited call failed or a check threw; the catch
\* block runs next.
thrown(cl) == [cl EXCEPT !.pc = "catch"]

\* Mutant: the element list is not checked for emptiness.
SubmitBeginUnchecked(c, raw) ==
    /\ client[c].pc = "idle"
    /\ ~client[c].creating
    /\ started < MaxActions
    /\ started' = started + 1
    /\ Step(c, [client[c] EXCEPT !.op = "submit", !.creating = TRUE,
                                 !.transactionStatus = Shown("pending"),
                                 !.input = parseElements(raw),
                                 !.pc = "signer"])
    /\ UNCHANGED ledger

\* Lines 184-202 (after ModalCreate.handleSubmit, 827-834).
SubmitBegin(c, raw) ==
    /\ client[c].pc = "idle"
    /\ ~client[c].creating
    /\ started < MaxActions
    /\ started' = started + 1
    /\ LET elements == parseElements(raw)
           cl == [client[c] EXCEPT !.op = "submit", !.creating = TRUE,
                                   !.transactionStatus = Shown("pending"),
                                   !.input = elements, !.pc = "signer"]
       IN Step(c, IF Len(elements) = 0 THEN thrown(cl) ELSE cl)
    /\ UNCHANGED ledger

\* Lines 282-302: two different sets chosen from the displayed list.
ComputeBegin(c, s1, s2) ==
    /\ client[c].pc = "idle"
    /\ started < MaxActions
    /\ s1 # s2
    /\ started' = started + 1
    /\ Step(c, [client[c] EXCEPT !.op = "compute",
                                 !.transactionStatus = Shown("pending"),
                                 !.input = <<s1, s2>>, !.pc = "signer"])
    /\ UNCHANGED ledger

\* Mutant: submitSet goes on to the index without writing the set record.
SignerWithoutRecord(c, ok, suffix) ==
    /\ client[c].pc = "signer"
    /\ LET cl == client[c]
       IN IF cl.op = "submit"
          THEN /\ UNCHANGED ledger
               /\ Step(c, IF ok THEN [cl EXCEPT !.id = freshId(suffix),
                                                !.pc = "getIndex"]
                          ELSE thrown(cl))
          ELSE LET set1 == find(cl.sets, cl.input[1])
                   set2 == find(cl.sets, cl.input[2])
               IN /\ UNCHANGED ledger
                  /\ IF ok /\ set1.id # NoId /\ set2.id # NoId
                     THEN Step(c, [cl EXCEPT !.input = <<set1, set2>>,
                                             !.pc = "wait"])
                     ELSE Step(c, thrown(cl))
    /\ UNCHANGED started

\* Lines 207-226: the signer contract is obtained, the id drawn, the record
\* written.  Lines 305-319: the signer contract is obtained, the two sets
\* looked up, the simulated computation awaited.
Signer(c, ok, suffix) ==
    /\ client[c].pc = "signer"
    /\ LET cl == client[c]
       IN IF cl.op = "submit"
          THEN LET setId == freshId(suffix)
                   setRecord == [name |-> c,
                                 data |-> encryptElements(cl.input),
                                 timestamp |-> now, owner |-> c,
                                 size |-> Len(cl.input)]
               IN IF ok
                  THEN /\ ledger' = setData(RecordKey("set", setId),
                                            stringifySet(setRecord))
                       /\ Step(c, [cl EXCEPT !.id = setId,
                                             !.pc = "getIndex"])
                  ELSE /\ UNCHANGED ledger
                       /\ Step(c, thrown(cl))
          ELSE LET set1 == find(cl.sets, cl.input[1])
                   set2 == find(cl.sets, cl.input[2])
               IN /\ UNCHANGED ledger
                  /\ IF ok /\ set1.id # NoId /\ set2.id # NoId
                     THEN Step(c, [cl EXCEPT !.input = <<set1, set2>>,
                                             !.pc = "wait"])
                     ELSE Step(c, thrown(cl))
    /\ UNCHANGED started

\* Lines 319-338: after the simulated computation the result record is
\* written under a fresh id.
Computed(c, ok, suffix) ==
    /\ client[c].pc = "wait"
    /\ LET cl == client[c]
           set1 == cl.input[1]
           set2 == cl.input[2]
           resultId == freshId(suffix)
           resultRecord ==
               [setName1 |-> set1.name, setName2 |-> set2.name,
                intersectionSize |-> (Min(set1.size, set2.size) * 3) \div 10,
                timestamp |-> now, status |-> "completed"]
       IN IF ok
          THEN /\ ledger' = setData(RecordKey("result", resultId),
                                    stringifyResult(resultRecord))
               /\ Step(c, [cl EXCEPT !.id = resultId, !.pc = "getIndex"])
          ELSE /\ UNCHANGED ledger
               /\ Step(c, thrown(cl))
    /\ UNCHANGED started

\* Lines 228-240 / 340-352: the index is read, parsed (empty when that
\* fails) and the new id pushed onto the local copy.
GetIndex(c, ok) ==
    /\ client[c].pc = "getIndex"
    /\ LET cl == client[c]
           bytes == getData(IndexKey(KindOf(cl)))
           keys == IF Len(bytes) > 0 /\ parsesAsKeys(bytes)
                   THEN parseKeys(bytes) ELSE <<>>
       IN Step(c, IF ok THEN [cl EXCEPT !.keys = Append(keys, cl.id),
                                        !.pc = "putIndex"]
                  ELSE thrown(cl))
    /\ UNCHANGED <<ledger, started>>

\* Lines 242-245 / 354-357: the local copy is written back.
PutIndex(c, ok) ==
    /\ client[c].pc = "putIndex"
    /\ LET cl == client[c]
       IN IF ok
          THEN /\ ledger' = setData(IndexKey(KindOf(cl)),
                                    stringifyKeys(cl.keys))
               /\ Step(c, [cl EXCEPT !.pc = "written"])
          ELSE /\ UNCHANGED ledger
               /\ Step(c, thrown(cl))
    /\ UNCHANGED started

\* Lines 247-253 / 359-365: success is shown and loadData called.
Success(c) ==
    /\ client[c].pc = "written"
    /\ Step(c, [client[c] EXCEPT !.transactionStatus = Shown("success"),
                                 !.pc = "loadIndex", !.loadKind = "set",
                                 !.isRefreshing = TRUE])
    /\ UNCHANGED <<ledger, started>>

\* Mutant: the error handling returns without the finally block.
CatchWithoutFinally(c) ==
    /\ client[c].pc = "catch"
    /\ Step(c, functionReturned([client[c] EXCEPT
                             !.transactionStatus = Shown("error"),
                             !.timers = @ + 1]))
    /\ UNCHANGED <<ledger, started>>

\* Lines 263-279 / 370-380: the error is shown, its reset timer armed, and
\* (finally) the busy flag released.
Catch(c) ==
    /\ client[c].pc = "catch"
    /\ Step(c, functionReturned([client[c] EXCEPT
                             !.transactionStatus = Shown("error"),
                             !.timers = @ + 1, !.creating = FALSE]))
    /\ UNCHANGED <<ledger, started>>

\* A reset timer armed by an earlier action fires (the callbacks of lines
\* 255-262, 274-276, 367-369, 377-379).
TimerFires(c) ==
    /\ client[c].timers > 0
    /\ Step(c, [client[c] EXCEPT !.transactionStatus = Hidden,
                                 !.timers = @ - 1])
    /\ UNCHANGED <<ledger, started>>

\* Date.now() moves on.
ClockTick ==
    /\ Tick
    /\ UNCHANGED clientVars

\* ids shown in a browser's set list
ShownIds(c) == {client[c].sets[k].id : k \in 1..Len(client[c].sets)}

\* Two sets stored by earlier sessions, listed in the index.
SeedIds == <<<<0, 1>>, <<0, 2>>>>
SeedRecord(k) ==
    stringifySet([name |-> k, data |-> encryptElements(<<k>>),
                  timestamp |-> 0, owner |-> k, size |-> 1])
SeededLedger ==
    [key \in {IndexKey("set"), RecordKey("set", SeedIds[1]),
              RecordKey("set", SeedIds[2])} |->
        IF key = IndexKey("set") THEN stringifyKeys(SeedIds)
        ELSE IF key = RecordKey("set", SeedIds[1]) THEN SeedRecord(1)
        ELSE SeedRecord(2)]

ClientInit ==
    /\ Deployed
    /\ ledger \in {<<>>, SeededLedger}
    /\ unreadable = {}
    /\ client = [c \in Clients |-> Mounted]
    /\ started = 0

ClientNext ==
    \/ \E c \in Clients : \E available \in BOOLEAN : LoadIndex(c, available)
    \/ \E c \in Clients : LoadRecord(c)
    \/ \E c \in Clients : Refresh(c)
    \/ \E c \in Clients : \E raw \in RawInputs : SubmitBegin(c, raw)
    \/ \E c \in Clients : \E s1 \in ShownIds(c) : \E s2 \in ShownIds(c) :
          ComputeBegin(c, s1, s2)
    \/ \E c \in Clients : \E ok \in BOOLEAN : \E suffix \in Suffixes :
          Signer(c, ok, suffix)
    \/ \E c \in Clients : \E ok \in BOOLEAN : \E suffix \in Suffixes :
          Computed(c, ok, suffix)
    \/ \E c \in Clients : \E ok \in BOOLEAN : GetIndex(c, ok)
    \/ \E c \in Clients : \E ok \in BOOLEAN : PutIndex(c, ok)
    \/ \E c \in Clients : Success(c)
    \/ \E c \in Clients : Catch(c)
    \/ \E c \in Clients : TimerFires(c)
    \/ ClockTick

SpecClient == ClientInit /\ [][ClientNext]_vars

\* ------------------------------------------- listing over any ledger
\* members of an index explored by the listing specification
MaxKeys == 2

\* A set record as submitSet writes it, for seed id k with a given timestamp.
RecordAt(k, ts) ==
    stringifySet([name |-> k, data |-> encryptElements(<<k>>),
                  timestamp |-> ts, owner |-> k, size |-> 1])

\* Index payloads: absent, not JSON, or any list of at most MaxKeys seed ids.
IndexPayloads ==
    {EmptyBytes, Garbage}
    \cup {stringifyKeys(q) :
            q \in SeqsUpTo({SeedIds[1], SeedIds[2]}, MaxKeys)}

\* Record payloads: absent, not JSON, or a record with either timestamp.
RecordPayloads(k) == {EmptyBytes, Garbage, RecordAt(k, 0), RecordAt(k, 1)}

SeedRecordKeys == {RecordKey("set", SeedIds[1]), RecordKey("set", SeedIds[2])}

\* One browser mounts the page over an arbitrary ledger.
ListingInit ==
    /\ Deployed
    /\ \E index \in IndexPayloads :
       \E r1 \in RecordPayloads(1) : \E r2 \in RecordPayloads(2) :
          ledger = [key \in {IndexKey("set")} \cup SeedRecordKeys |->
                       IF key = IndexKey("set") THEN index
                       ELSE IF key = RecordKey("set", SeedIds[1]) THEN r1
                       ELSE r2]
    /\ unreadable \in SUBSET SeedRecordKeys
    /\ client = [c \in {1} |-> Mounted]
    /\ started = 0

ListingNext ==
    \/ \E available \in BOOLEAN : LoadIndex(1, available)
    \/ LoadRecord(1)

SpecListing == ListingInit /\ [][ListingNext]_vars

\* ------------------------------------------------- one browser alone
\* ids of the set records stored in the ledger
StoredSetIds ==
    {<<key[3], key[4]>> : key \in {k \in DOMAIN ledger :
                                     k[1] = "set" /\ k[2] = "id"}}

\* Values of selectedSet1 / selectedSet2: nothing chosen (NoId), a set of the
\* current list, or a stored set the current list does not (or no longer)
\* show.
Selections(c) == {NoId} \cup ShownIds(c) \cup StoredSetIds

\* computePSI up to its first await (lines 282-305), for any selection: a
\* missing selection and two identical selections are answered with an
\* alert and a return (lines 288-296); otherwise the run begins.
computePSI(c, s1, s2) ==
    IF s1 = NoId \/ s2 = NoId \/ s1 = s2
    THEN /\ client[c].pc = "idle"
         /\ started < MaxActions
         /\ started' = started + 1
         /\ UNCHANGED <<setCount, ownerToSetId, encryptedSets, psiRequests,
                        psiResults, events, fheCounter, fheRequests, signed,
                        now, lastCall, ledger, unreadable, client>>
    ELSE ComputeBegin(c, s1, s2)


\* One browser mounts the page over an empty ledger or over the two seeded
\* sets, and its user acts.
BrowserInit ==
    /\ Deployed
    /\ ledger \in {<<>>, SeededLedger}
    /\ unreadable = {}
    /\ client = [c \in {1} |-> Mounted]
    /\ started = 0

BrowserNext ==
    \/ \E available \in BOOLEAN : LoadIndex(1, available)
    \/ LoadRecord(1)
    \/ Refresh(1)
    \/ \E raw \in RawInputs : SubmitBegin(1, raw)
    \/ \E s1 \in Selections(1) : \E s2 \in Selections(1) :
          computePSI(1, s1, s2)
    \/ \E ok \in BOOLEAN : \E suffix \in Suffixes : Signer(1, ok, suffix)
    \/ \E ok \in BOOLEAN : \E suffix \in Suffixes : Computed(1, ok, suffix)
    \/ \E ok \in BOOLEAN : GetIndex(1, ok)
    \/ \E ok \in BOOLEAN : PutIndex(1, ok)
    \/ Success(1)
    \/ Catch(1)
    \/ TimerFires(1)
    \/ ClockTick

SpecBrowser == BrowserInit /\ [][BrowserNext]_vars

\* ------------------------------------- submissions, contract and client
\* the elements field as typed, with blank items before, between and after
TypedInputs == {<<0>>, <<1, 0>>, <<0, 2, 0, 1>>}

\* Within one block, a caller submits sets to the contract while one
\* browser, opened over an empty ledger, submits sets through the page.
SubmitInit ==
    /\ Deployed
    /\ ledger = <<>>
    /\ unreadable = {}
    /\ client = [c \in {1} |-> Mounted]
    /\ started = 0

SubmitNext ==
    \/ \E sender \in Requesters : \E items \in ItemInputs(setCount + 1) :
          submitEncryptedSet(sender, items)
    \/ \E available \in BOOLEAN : LoadIndex(1, available)
    \/ LoadRecord(1)
    \/ \E raw \in TypedInputs : SubmitBegin(1, raw)
    \/ \E ok \in BOOLEAN : \E suffix \in Suffixes : Signer(1, ok, suffix)
    \/ \E ok \in BOOLEAN : GetIndex(1, ok)
    \/ \E ok \in BOOLEAN : PutIndex(1, ok)
    \/ Success(1)
    \/ Catch(1)

SpecSubmit == SubmitInit /\ [][SubmitNext]_vars

\* The continuation of the running async function: the awaited call has
\* settled (either way) and the code up to the next await runs.
Continue(c) ==
    \/ \E available \in BOOLEAN : LoadIndex(c, available)
    \/ LoadRecord(c)
    \/ \E ok \in BOOLEAN : \E suffix \in Suffixes : Signer(c, ok, suffix)
    \/ \E ok \in BOOLEAN : \E suffix \in Suffixes : Computed(c, ok, suffix)
    \/ \E ok \in BOOLEAN : GetIndex(c, ok)
    \/ \E ok \in BOOLEAN : PutIndex(c, ok)
    \/ Success(c)
    \/ Catch(c)

\* One browser, opened over an empty ledger, whose user submits sets and
\* refreshes the lists within one millisecond (submitSet, loadData).
ReleaseNext ==
    \/ \E available \in BOOLEAN : LoadIndex(1, available)
    \/ LoadRecord(1)
    \/ Refresh(1)
    \/ \E raw \in RawInputs : SubmitBegin(1, raw)
    \/ \E ok \in BOOLEAN : \E suffix \in Suffixes : Signer(1, ok, suffix)
    \/ \E ok \in BOOLEAN : GetIndex(1, ok)
    \/ \E ok \in BOOLEAN : PutIndex(1, ok)
    \/ Success(1)
    \/ Catch(1)

\* The browser's awaited calls all settle: a continuation that can run does
\* run.  The user is under no obligation.
SpecRelease == SubmitInit /\ [][ReleaseNext]_vars /\ WF_vars(Continue(1))

\* ------------------------------------------ observations of the client
\* The member ids of an index as a reader sees them.
IndexOf(kind) ==
    LET bytes == getData(IndexKey(kind))
    IN IF Len(bytes) > 0 /\ parsesAsKeys(bytes) THEN parseKeys(bytes)
       ELSE <<>>

\* The record of this id can be read and is well-formed.
WellFormed(kind, id) ==
    /\ RecordKey(kind, id) \notin unreadable
    /\ Len(getData(RecordKey(kind, id))) > 0
    /\ parsesAsRecord(getData(RecordKey(kind, id)))

Occurrences(q, x) == Cardinality({k \in 1..Len(q) : q[k] = x})

IdsOf(list) == [k \in 1..Len(list) |-> list[k].id]

\* The list holds exactly the index members with a well-formed record (each
\* as often as the index names it), built from that record, newest first.
ListsFamily(list, kind) ==
    /\ \A k \in 1..Len(list) :
          /\ WellFormed(kind, list[k].id)
          /\ list[k] = IF kind = "set"
                       THEN setEntry(list[k].id,
                                     getData(RecordKey(kind, list[k].id)))
                       ELSE resultEntry(list[k].id,
                                        getData(RecordKey(kind, list[k].id)))
    /\ \A k \in 1..Len(IndexOf(kind)) :
          Occurrences(IdsOf(list), IndexOf(kind)[k])
             = IF WellFormed(kind, IndexOf(kind)[k])
               THEN Occurrences(IndexOf(kind), IndexOf(kind)[k]) ELSE 0
    /\ \A k \in 1..(Len(list) - 1) :
          list[k].timestamp >= list[k + 1].timestamp

Loading == {"loadIndex", "loadRecord"}

\* The user-visible transaction status of a browser.
TxState(c) ==
    IF ~client[c].transactionStatus.visible THEN "Idle"
    ELSE IF client[c].transactionStatus.status = "pending" THEN "Pending"
    ELSE IF client[c].transactionStatus.status = "success" THEN "Success"
    ELSE "Error"

\* The browser's running action has completed its index write.
Appended(c) ==
    /\ client[c].op \in {"submit", "compute"}
    /\ client[c].pc \in {"written"} \cup Loading

\* ----------------------------------------------- claims on the client

\* C11: for all valid submissions, after submitSet returns a listing of the
\* sets contains exactly one entry with the new id -- checked for
\* submissions whose id no other running submission has drawn.  (The owner
\* pointer of the claim exists in the contract only, see C14.)
C11_ListedOnceAfterSubmit ==
    [][\A c \in DOMAIN client :
          (/\ client[c].op = "submit"
           /\ client[c].pc \in Loading
           /\ client'[c].pc = "idle"
           /\ \A other \in DOMAIN client \ {c} :
                 client[other].id # client[c].id)
          => LET newId == client[c].id
                 listed == [k \in 1..Len(IndexOf("set")') |->
                               IF WellFormed("set", IndexOf("set")[k])'
                               THEN IndexOf("set")'[k] ELSE NoId]
             IN Occurrences(listed, newId) = 1
      ]_vars

\* C12: concurrent index appends on the same index key serialize -- when two
\* browsers have both completed the index write for different new ids of the
\* same family, the index holds each of the two ids exactly once.
C12_ConcurrentAppendsKept ==
    \A c1 \in DOMAIN client : \A c2 \in DOMAIN client :
        (/\ c1 # c2
         /\ Appended(c1) /\ Appended(c2)
         /\ KindOf(client[c1]) = KindOf(client[c2])
         /\ client[c1].id # client[c2].id)
        => /\ Occurrences(IndexOf(KindOf(client[c1])), client[c1].id) = 1
           /\ Occurrences(IndexOf(KindOf(client[c2])), client[c2].id) = 1

\* C13: every submitSet creates its set under a fresh id -- the record write
\* of a submission never lands on a key that already holds a set record.
C13_FreshSetId ==
    [][\A c \in DOMAIN client :
          (/\ client[c].op = "submit"
           /\ client[c].pc = "signer"
           /\ client'[c].pc = "getIndex")
          => \E id \in {client'[c].id} :
                RecordKey("set", id) \notin DOMAIN ledger
      ]_vars

\* C18: the client never shows Success before the ledger writes are durably
\* visible -- while a browser shows "success" for its running action, the
\* record is stored under the new id and a read of the index contains the
\* new id.
C18_SuccessImpliesVisible ==
    \A c \in DOMAIN client :
        (/\ client[c].op \in {"submit", "compute"}
         /\ TxState(c) = "Success"
         /\ client[c].pc \in Loading)
        => /\ Len(getData(RecordKey(KindOf(client[c]), client[c].id))) > 0
           /\ Occurrences(IndexOf(KindOf(client[c])), client[c].id) >= 1

\* The transitions of the status state machine, and the ones taken when a
\* new action starts within the display window of the previous one (the case
\* the claim speaks of).
TxTransitions ==
    {<<"Idle", "Pending">>, <<"Pending", "Success">>, <<"Pending", "Error">>,
     <<"Success", "Idle">>, <<"Error", "Idle">>}
TxRestarts == {<<"Success", "Pending">>, <<"Error", "Pending">>}

\* C19: the transaction status follows Idle -> Pending -> {Success, Error}
\* -> Idle: a step changes a browser's status only along these transitions
\* (or restarts from a displayed outcome); in particular, when a new action
\* starts while an earlier action's reset timer is outstanding, Pending is
\* never reset to Idle by that timer.
C19_StatusStateMachine ==
    [][\A c \in DOMAIN client :
          \/ TxState(c)' = TxState(c)
          \/ <<TxState(c), TxState(c)'>> \in TxTransitions \cup TxRestarts
      ]_vars

Members(kind) == {IndexOf(kind)[k] : k \in 1..Len(IndexOf(kind))}

\* C21: index-list membership is monotonically append-only -- once an id is
\* a member of "set_keys" or "result_keys", it remains a member after every
\* later operation, a submitSet/computePSI that reads an index payload it
\* cannot parse and interleaved appends included.
C21_IndexAppendOnly ==
    [][\A kind \in Kinds : Members(kind) \subseteq Members(kind)']_vars

\* C22: referential integrity of the index lists -- in every reachable state
\* (the states between the two writes of submitSet/computePSI and the states
\* after a failed write included), every id in "set_keys" has a stored
\* "set_"+id record and every id in "result_keys" has a stored
\* "result_"+id record.
C22_IndexedIdsHaveRecords ==
    \A kind \in Kinds : \A id \in Members(kind) :
        /\ RecordKey(kind, id) \in DOMAIN ledger
        /\ Len(getData(RecordKey(kind, id))) > 0

\* The browser's index write has failed after its record write: the record
\* is stored without being indexed, while the index names the earlier sets.
C22_Witness ==
    \E c \in DOMAIN client :
        /\ client[c].op = "submit"
        /\ client[c].pc = "catch"
        /\ client[c].keys # <<>>
        /\ RecordKey("set", client[c].id) \in DOMAIN ledger
        /\ client[c].id \notin Members("set")
        /\ Members("set") # {}

\* The running action has passed its validation: a submission has at least
\* one element; a computation has found its two different sets in the list.
Validated(c) ==
    LET cl == client[c]
    IN \/ cl.op = "submit" /\ Len(cl.input) > 0
       \/ /\ cl.op = "compute"
          /\ cl.pc \in {"wait", "getIndex", "putIndex"}
          /\ cl.input[1].id # cl.input[2].id
          /\ {cl.input[1].id, cl.input[2].id} \subseteq ShownIds(c)

\* C29: client-side validation errors are rejected before any side effect --
\* submitSet with an element list that is empty after trimming, and
\* computePSI with a missing selection, two identical selections, or a
\* selected id absent from the loaded sets, perform no ledger write (no
\* record put and no index update): such a call goes to its error handling
\* (or returns) at once, the error handling writes nothing, and every step
\* that writes the ledger belongs to an action that passed its validation.
C29_ValidationBeforeWrites ==
    [][/\ \A c \in DOMAIN client :
             /\ \A raw \in RawInputs :
                   ((\A k \in 1..Len(raw) : raw[k] = 0) /\ SubmitBegin(c, raw))
                   => ledger' = ledger /\ client'[c].pc = "catch"
             /\ \A s1 \in Selections(c) : \A s2 \in Selections(c) :
                   computePSI(c, s1, s2)
                   => /\ ledger' = ledger
                      /\ (s1 = NoId \/ s2 = NoId \/ s1 = s2)
                            => client' = client
             /\ (/\ client[c].op = "compute"
                 /\ client[c].pc = "signer"
                 /\ ~({client[c].input[1], client[c].input[2]}
                        \subseteq ShownIds(c)))
                   => ledger' = ledger /\ client'[c].pc \in {"signer", "catch"}
             /\ client[c].pc = "catch" => ledger' = ledger
       /\ ledger' # ledger => \E c \in DOMAIN client : Validated(c)
      ]_vars

\* A computation over a selected set that the list does not show has reached
\* its error handling, with set records stored in the ledger.
C29_Witness ==
    \E c \in DOMAIN client :
        /\ client[c].op = "compute"
        /\ client[c].pc = "catch"
        /\ client[c].input[1] \in StoredSetIds
        /\ client[c].input[1] \notin ShownIds(c)
        /\ client[c].input[2] \in ShownIds(c)

\* The items of a typed element list that are not blank, in order.
NonBlank(raw) == SelectSeq(raw, LAMBDA e : e # 0)

\* C28: submission round-trip -- for every submitted handle sequence,
\* reading the stored set back by its new id returns exactly the submitted
\* handles in the same order, and the recorded size equals the number of
\* submitted handles (client: the number of non-empty trimmed elements; the
\* record read back by its new id carries that size and those elements, and
\* so does every entry of the browser's list).
C28_SubmissionRoundTrip ==
    [][/\ \A sender \in Requesters : \A items \in ItemInputs(setCount + 1) :
             submitEncryptedSet(sender, items)
             => /\ lastCall'.ok = TRUE
                /\ lastCall'.id \notin DOMAIN encryptedSets
                /\ Lookup(encryptedSets', lastCall'.id, EmptySet).items = items
                /\ Len(Lookup(encryptedSets', lastCall'.id, EmptySet).items)
                      = Len(items)
       /\ \A c \in DOMAIN client :
             /\ \A raw \in TypedInputs :
                   SubmitBegin(c, raw) => client'[c].input = NonBlank(raw)
             /\ (/\ client[c].op = "submit"
                 /\ client[c].pc = "signer"
                 /\ client'[c].pc = "getIndex")
                   => LET id == client'[c].id
                          key == RecordKey("set", id)
                      IN /\ key \in DOMAIN ledger'
                         /\ parsesAsRecord(ledger'[key])
                         /\ setEntry(id, ledger'[key]).size
                               = Len(client[c].input)
                         /\ setEntry(id, ledger'[key]).encryptedData
                               = encryptElements(client[c].input)
             /\ \A k \in 1..Len(client'[c].sets) :
                   encryptElements(
                       [j \in 1..client'[c].sets[k].size |->
                           client'[c].sets[k].encryptedData[j + 1]])
                   = client'[c].sets[k].encryptedData
      ]_vars

\* The contract returns the MaxItems handles of a submitted set, and the
\* browser lists a set of size 2 submitted as " ,2, ,1".
C28_Witness ==
    /\ \E id \in DOMAIN encryptedSets :
          /\ Len(getEncryptedSetItems(id)) = MaxItems
          /\ getEncryptedSetItems(id) \in ItemInputs(id)
    /\ \E c \in DOMAIN client : \E k \in 1..Len(client[c].sets) :
          /\ client[c].sets[k].size = 2
          /\ client[c].sets[k].encryptedData = encryptElements(<<2, 1>>)

====
